---- MODULE Spec2Model ----
(***************************************************************************)
(* The Insights view of InsightSphere AI (frontend/src/pages/Insights.tsx): *)
(* the in-memory mood-log collection, its load and save handlers, and the   *)
(* derived statistics, streak, patterns and chart data computed from it.    *)
(*                                                                          *)
(* JavaScript numbers are IEEE-754 doubles.  The arithmetic of the view is  *)
(* modelled bit-exactly: a double is a sign, a 53-bit mantissa and a binary *)
(* exponent, every operation computes the exact result and rounds it to the *)
(* nearest double, ties to even.                                            *)
(***************************************************************************)
EXTENDS Integers, Sequences, FiniteSets, TLC

(***************************************************************************)
(* Natural numbers of arbitrary size (TLC's integers are 32 bits wide, a    *)
(* mantissa is 53): little-endian sequences of limbs, no leading zero limb. *)
(***************************************************************************)
Base == 2^15

RECURSIVE BNTrim(_)
BNTrim(x) ==
    IF x = <<>> THEN <<>>
    ELSE IF x[Len(x)] = 0 THEN BNTrim(SubSeq(x, 1, Len(x) - 1)) ELSE x

RECURSIVE BNOfInt(_)
BNOfInt(n) == IF n = 0 THEN <<>> ELSE <<n % Base>> \o BNOfInt(n \div Base)

RECURSIVE BNToIntFrom(_, _)
BNToIntFrom(x, i) == IF i > Len(x) THEN 0 ELSE x[i] + Base * BNToIntFrom(x, i + 1)

BNToInt(x) == BNToIntFrom(x, 1)

BNLimb(x, i) == IF i <= Len(x) THEN x[i] ELSE 0

RECURSIVE BNAddFrom(_, _, _, _)
BNAddFrom(x, y, i, c) ==
    IF i > Len(x) /\ i > Len(y) THEN (IF c = 0 THEN <<>> ELSE <<c>>)
    ELSE LET s == BNLimb(x, i) + BNLimb(y, i) + c
         IN  <<s % Base>> \o BNAddFrom(x, y, i + 1, s \div Base)

BNAdd(x, y) == BNAddFrom(x, y, 1, 0)

RECURSIVE BNSubFrom(_, _, _, _)
BNSubFrom(x, y, i, b) ==
    IF i > Len(x) THEN <<>>
    ELSE LET d == x[i] - BNLimb(y, i) - b
         IN  IF d < 0 THEN <<d + Base>> \o BNSubFrom(x, y, i + 1, 1)
                      ELSE <<d>> \o BNSubFrom(x, y, i + 1, 0)

\* x - y, for x >= y
BNSub(x, y) == BNTrim(BNSubFrom(x, y, 1, 0))

RECURSIVE BNCmpFrom(_, _, _)
BNCmpFrom(x, y, i) ==
    IF i = 0 THEN 0
    ELSE IF x[i] > y[i] THEN 1
    ELSE IF x[i] < y[i] THEN -1
    ELSE BNCmpFrom(x, y, i - 1)

\* -1, 0 or 1 as x is less than, equal to or greater than y
BNCmp(x, y) ==
    IF Len(x) > Len(y) THEN 1
    ELSE IF Len(x) < Len(y) THEN -1
    ELSE BNCmpFrom(x, y, Len(x))

RECURSIVE BNMulSmallFrom(_, _, _, _)
BNMulSmallFrom(x, k, i, c) ==
    IF i > Len(x) THEN (IF c = 0 THEN <<>> ELSE <<c>>)
    ELSE LET p == x[i] * k + c
         IN  <<p % Base>> \o BNMulSmallFrom(x, k, i + 1, p \div Base)

\* x * k, for 0 <= k < Base
BNMulSmall(x, k) == IF k = 0 THEN <<>> ELSE BNMulSmallFrom(x, k, 1, 0)

BNShlLimbs(x, n) == IF x = <<>> THEN <<>> ELSE [i \in 1..n |-> 0] \o x

RECURSIVE BNMulFrom(_, _, _)
BNMulFrom(x, y, i) ==
    IF i > Len(y) THEN <<>>
    ELSE BNAdd(BNShlLimbs(BNMulSmall(x, y[i]), i - 1), BNMulFrom(x, y, i + 1))

BNMul(x, y) == BNMulFrom(x, y, 1)

\* x * 2^s
BNShl(x, s) == BNShlLimbs(BNMulSmall(x, 2^(s % 15)), s \div 15)

RECURSIVE BNDivSmallFrom(_, _, _, _)
BNDivSmallFrom(x, d, i, r) ==
    IF i = 0 THEN [q |-> <<>>, r |-> r]
    ELSE LET n    == r * Base + x[i]
             rest == BNDivSmallFrom(x, d, i - 1, n % d)
         IN  [q |-> Append(rest.q, n \div d), r |-> rest.r]

\* quotient and remainder of x by d, for 0 < d <= Base
BNDivSmall(x, d) ==
    LET res == BNDivSmallFrom(x, d, Len(x), 0)
    IN  [q |-> BNTrim(res.q), r |-> res.r]

\* floor(x / 2^s)
BNShr(x, s) ==
    IF s \div 15 >= Len(x) THEN <<>>
    ELSE BNDivSmall(SubSeq(x, s \div 15 + 1, Len(x)), 2^(s % 15)).q

RECURSIVE BitLenInt(_)
BitLenInt(n) == IF n = 0 THEN 0 ELSE 1 + BitLenInt(n \div 2)

BNBitLen(x) == IF x = <<>> THEN 0 ELSE 15 * (Len(x) - 1) + BitLenInt(x[Len(x)])

BNIsOdd(x) == x # <<>> /\ x[1] % 2 = 1

(***************************************************************************)
(* Doubles.  [neg, m, e] is the number (-1)^neg * m * 2^e.  A double has m  *)
(* of exactly MantBits bits, or is zero (m empty, e = 0, neg FALSE); the    *)
(* values of the view stay far from the subnormal and overflow ranges.      *)
(***************************************************************************)
MantBits == 53

FZero == [neg |-> FALSE, m |-> <<>>, e |-> 0]

\* the nearest of q and q + 1 when rem of 2 * half was cut off below q
RNNearest(q, c) == IF c = 1 \/ (c = 0 /\ BNIsOdd(q)) THEN BNAdd(q, <<1>>) ELSE q

\* the rounded mantissa may have grown to MantBits + 1 bits: 2^MantBits
RNPack(neg, q, e) ==
    IF BNBitLen(q) > MantBits THEN [neg |-> neg, m |-> BNShr(q, 1), e |-> e + 1]
                              ELSE [neg |-> neg, m |-> q, e |-> e]

RNCut(d, s, q) ==
    RNPack(d.neg, RNNearest(q, BNCmp(BNSub(d.m, BNShl(q, s)), BNShl(<<1>>, s - 1))), d.e + s)

RNBits(d, L) ==
    IF L = 0 THEN FZero
    ELSE IF L <= MantBits
         THEN [neg |-> d.neg, m |-> BNShl(d.m, MantBits - L), e |-> d.e - (MantBits - L)]
         ELSE RNCut(d, L - MantBits, BNShr(d.m, L - MantBits))

\* round an exact dyadic number to the nearest double, ties to even
RN(d) == RNBits(d, BNBitLen(d.m))

\* the double of an integer 0 <= n < Base (exact)
FInt(n) ==
    IF n = 0 THEN FZero
    ELSE [neg |-> FALSE, m |-> BNShl(<<n>>, MantBits - BitLenInt(n)),
          e |-> BitLenInt(n) - MantBits]

FNeg(x) == IF x.m = <<>> THEN x ELSE [x EXCEPT !.neg = ~x.neg]

\* the mantissa of x scaled to exponent e, for e <= x.e
DyAlign(x, e) == IF x.m = <<>> THEN <<>> ELSE BNShl(x.m, x.e - e)

DyMinExp(x, y) ==
    IF x.m = <<>> THEN y.e
    ELSE IF y.m = <<>> THEN x.e
    ELSE IF x.e < y.e THEN x.e ELSE y.e

FCmpSigned(xneg, yneg, mc) ==
    IF xneg /\ ~yneg THEN -1
    ELSE IF ~xneg /\ yneg THEN 1
    ELSE IF xneg THEN -mc ELSE mc

FCmpAt(x, y, e) == FCmpSigned(x.neg, y.neg, BNCmp(DyAlign(x, e), DyAlign(y, e)))

\* -1, 0 or 1 as x is less than, equal to or greater than y
FCmp(x, y) == FCmpAt(x, y, DyMinExp(x, y))

FGt(x, y) == FCmp(x, y) = 1
FLt(x, y) == FCmp(x, y) = -1

DyAddAligned(xneg, yneg, mx, my, e) ==
    IF xneg = yneg THEN [neg |-> xneg, m |-> BNAdd(mx, my), e |-> e]
    ELSE IF BNCmp(mx, my) >= 0 THEN [neg |-> xneg, m |-> BNSub(mx, my), e |-> e]
    ELSE [neg |-> yneg, m |-> BNSub(my, mx), e |-> e]

DyAddAt(x, y, e) == DyAddAligned(x.neg, y.neg, DyAlign(x, e), DyAlign(y, e), e)

\* the exact sum of two dyadic numbers
DyAdd(x, y) == DyAddAt(x, y, DyMinExp(x, y))

\* x + y, x - y, x * y as JavaScript computes them
FAdd(x, y) == RN(DyAdd(x, y))
FSub(x, y) == FAdd(x, FNeg(y))
FMul(x, y) == RN([neg |-> x.neg # y.neg, m |-> BNMul(x.m, y.m), e |-> x.e + y.e])

DivShift == 75

\* the quotient with a sticky bit below it: the remainder is not zero
FDivSticky(qr) == BNAdd(BNShl(qr.q, 1), IF qr.r = 0 THEN <<>> ELSE <<1>>)

\* a / b as JavaScript computes it, for integers a >= 0 and 0 < b <= Base:
\* the quotient to DivShift fractional bits, a sticky bit, then rounded
FDivInt(a, b) ==
    RN([neg |-> FALSE,
        m   |-> FDivSticky(BNDivSmall(BNShl(BNOfInt(a), DivShift), b)),
        e   |-> -(DivShift + 1)])

\* floor(m / 2^k + 1/2) and ceil(m / 2^k - 1/2), for k > 0
RoundHalfUp(m, k) == BNToInt(BNShr(BNAdd(m, BNShl(<<1>>, k - 1)), k))

RoundHalfDown(m, k) == BNToInt(BNShr(BNAdd(m, BNSub(BNShl(<<1>>, k - 1), <<1>>)), k))

\* Math.round(x): floor(x + 0.5), as an integer
MathRound(x) ==
    IF x.m = <<>> THEN 0
    ELSE IF x.e >= 0 THEN (IF x.neg THEN -BNToInt(BNShl(x.m, x.e)) ELSE BNToInt(BNShl(x.m, x.e)))
    ELSE IF x.neg THEN -RoundHalfDown(x.m, -x.e) ELSE RoundHalfUp(x.m, -x.e)

(***************************************************************************)
(* Number.prototype.toFixed(1): the integer n of tenths closest to |x|, the *)
(* larger n on a tie, with the sign of x.  [neg, tenths] stands for the     *)
(* string "-d.d" or "d.d".                                                  *)
(***************************************************************************)
ToFixed1(x) ==
    [neg    |-> x.neg,
     tenths |-> MathRound([neg |-> FALSE, m |-> BNMulSmall(x.m, 10), e |-> x.e])]

\* parseFloat of a toFixed(1) string: the double nearest to the decimal
ParseFloat(s) == IF s.neg THEN FNeg(FDivInt(s.tenths, 10)) ELSE FDivInt(s.tenths, 10)

(***************************************************************************)
(* Time.  The clock and the timestamps count ticks; TicksPerDay ticks make  *)
(* the 24 * 60 * 60 * 1000 milliseconds of a day.                           *)
(***************************************************************************)
TicksPerDay == 2

Day == TicksPerDay

\* new Date(t).toISOString().split('T')[0]: the UTC calendar day of t
IsoDate(t) == t \div Day

WeekdayNames ==
    <<"Sunday", "Monday", "Tuesday", "Wednesday", "Thursday", "Friday", "Saturday">>

\* offset of the browser's local time from UTC, in ticks
TzTicks == 0

\* toLocaleDateString('en-US', {weekday: 'long'}); 1 January 1970 was a Thursday
LocalWeekday(t) == WeekdayNames[((((t + TzTicks) \div Day) + 4) % 7) + 1]

(***************************************************************************)
(* Mood entries                                                             *)
(***************************************************************************)
Null == [null |-> TRUE]

MoodEntry(ts, mood, energy, anxiety, sleep, exercise, social, meditation) ==
    [timestamp |-> ts, mood |-> mood, energy |-> energy, anxiety |-> anxiety,
     sleep |-> sleep, exercise |-> exercise, social |-> social,
     meditation |-> meditation]

RECURSIVE SumOf(_, _)
\* reduce((sum, e) => sum + e[field], 0); the sums are integers below 2^53
SumOf(entries, field) ==
    IF entries = <<>> THEN 0 ELSE Head(entries)[field] + SumOf(Tail(entries), field)

\* sum / length, NaN for an empty subset
Avg(entries, field) ==
    IF Len(entries) = 0 THEN [nan |-> TRUE] ELSE FDivInt(SumOf(entries, field), Len(entries))

\* a variant that takes the neutral 5 for the mean of an empty subset
OrZero_Neutral(x) == IF x = [nan |-> TRUE] THEN FInt(5) ELSE x

\* x || 0: NaN and 0 are falsy
OrZero(x) == IF x = [nan |-> TRUE] THEN FZero ELSE x

RECURSIVE InsertDesc(_, _)
InsertDesc(sorted, e) ==
    IF sorted = <<>> THEN <<e>>
    ELSE IF Head(sorted).timestamp - e.timestamp >= 0
         THEN <<Head(sorted)>> \o InsertDesc(Tail(sorted), e)
         ELSE <<e>> \o sorted

RECURSIVE SortDescFrom(_, _, _)
SortDescFrom(entries, i, acc) ==
    IF i > Len(entries) THEN acc
    ELSE SortDescFrom(entries, i + 1, InsertDesc(acc, entries[i]))

\* [...moodEntries].sort((a, b) => b.timestamp - a.timestamp), a stable sort
SortDesc(entries) == SortDescFrom(entries, 1, <<>>)

(***************************************************************************)
(* stats (useMemo)                                                          *)
(***************************************************************************)
\* a variant whose window includes the entry created exactly 7 days ago
Last7Days_Inclusive(entries, t) == SelectSeq(entries, LAMBDA e : t - e.timestamp <= 7 * Day)

Last7Days(entries, t) == SelectSeq(entries, LAMBDA e : t - e.timestamp < 7 * Day)

Last30Days(entries, t) == SelectSeq(entries, LAMBDA e : t - e.timestamp < 30 * Day)

PrevWeek(entries, t) ==
    SelectSeq(entries, LAMBDA e : e.timestamp < t - 7 * Day /\ e.timestamp > t - 14 * Day)

CountWhere(entries, field) == Len(SelectSeq(entries, LAMBDA e : e[field]))

RECURSIVE StreakFrom_SameDay(_, _, _)
\* a variant whose expected date stays today instead of stepping back a day
\* per matched entry
StreakFrom_SameDay(sorted, t, i) ==
    IF i >= Len(sorted) THEN i
    ELSE IF IsoDate(sorted[i + 1].timestamp) = IsoDate(t)
         THEN StreakFrom_SameDay(sorted, t, i + 1)
         ELSE i

RECURSIVE StreakFrom(_, _, _)
\* the for loop over sortedEntries: i entries matched so far
StreakFrom(sorted, t, i) ==
    IF i >= Len(sorted) THEN i
    ELSE IF IsoDate(sorted[i + 1].timestamp) = IsoDate(t - i * Day)
         THEN StreakFrom(sorted, t, i + 1)
         ELSE i

\* a variant whose walk starts at yesterday
CurrentStreak_FromYesterday(entries, t) == StreakFrom(SortDesc(entries), t - Day, 0)

CurrentStreak(entries, t) == StreakFrom(SortDesc(entries), t, 0)

\* avgMood, avgEnergy, avgAnxiety, avgSleep: sum / last7Days.length || 0
Averages(last7Days) ==
    [f \in {"mood", "energy", "anxiety", "sleep"} |-> OrZero(Avg(last7Days, f))]

\* count / 7 * 10, for exerciseCount and socialCount
Densities(counts) == [f \in DOMAIN counts |-> FMul(FDivInt(counts[f], 7), FInt(10))]

\* the literals 0.3, 0.2, 0.2, 0.15, 0.1, 0.05, as the fractions they denote
WellnessWeights == <<<<3, 10>>, <<2, 10>>, <<2, 10>>, <<15, 100>>, <<1, 10>>, <<5, 100>>>>

WellnessSum(i, acc, term) == IF i = 1 THEN term ELSE FAdd(acc, term)

RECURSIVE WeightedSumFrom(_, _, _)
\* terms[1] * w1 + terms[2] * w2 + ..., added from left to right
WeightedSumFrom(terms, i, acc) ==
    IF i > Len(terms) THEN acc
    ELSE WeightedSumFrom(terms, i + 1,
            WellnessSum(i, acc, FMul(terms[i], FDivInt(WellnessWeights[i][1],
                                                       WellnessWeights[i][2]))))

\* a variant that takes the anxiety mean as it is, not inverted
WellnessTerms_AnxietyAsIs(avg, density) ==
    <<avg.mood, avg.energy, avg.anxiety, avg.sleep, density.exercise, density.social>>

WellnessTerms(avg, density) ==
    <<avg.mood, avg.energy, FSub(FInt(10), avg.anxiety), avg.sleep,
      density.exercise, density.social>>

WellnessScore(avg, counts) ==
    MathRound(FMul(WeightedSumFrom(WellnessTerms(avg, Densities(counts)), 1, FZero),
                   FInt(10)))

StatsRecord(entries, t, last7Days, avg, counts) ==
    [avgMood         |-> ToFixed1(avg.mood),
     avgEnergy       |-> ToFixed1(avg.energy),
     avgAnxiety      |-> ToFixed1(avg.anxiety),
     avgSleep        |-> ToFixed1(avg.sleep),
     exerciseCount   |-> counts.exercise,
     socialCount     |-> counts.social,
     meditationCount |-> CountWhere(last7Days, "meditation"),
     currentStreak   |-> CurrentStreak(entries, t),
     wellnessScore   |-> WellnessScore(avg, counts),
     moodChange      |-> ToFixed1(FSub(avg.mood, OrZero(Avg(PrevWeek(entries, t), "mood")))),
     totalEntries    |-> Len(entries),
     last7Days       |-> Len(last7Days),
     last30Days      |-> Len(Last30Days(entries, t))]

\* a variant whose score takes the meditation count where the social count belongs
StatsOver_MeditationScored(entries, t, last7Days) ==
    StatsRecord(entries, t, last7Days, Averages(last7Days),
                [exercise |-> CountWhere(last7Days, "exercise"),
                 social   |-> CountWhere(last7Days, "meditation")])

StatsOver(entries, t, last7Days) ==
    StatsRecord(entries, t, last7Days, Averages(last7Days),
                [exercise |-> CountWhere(last7Days, "exercise"),
                 social   |-> CountWhere(last7Days, "social")])

\* the snapshot of a non-empty collection
StatsOf(entries, t) == StatsOver(entries, t, Last7Days(entries, t))

\* a variant that answers null when no entry is in the last 7 days
Stats_NullWithoutRecent(entries, t) ==
    IF Len(Last7Days(entries, t)) = 0 THEN Null ELSE StatsOf(entries, t)

\* a variant without the early return for the empty collection
Stats_NoEmptyReturn(entries, t) == StatsOf(entries, t)

Stats(entries, t) == IF Len(entries) = 0 THEN Null ELSE StatsOf(entries, t)

(***************************************************************************)
(* patterns (useMemo)                                                       *)
(***************************************************************************)
Min(a, b) == IF a < b THEN a ELSE b

\* a Pattern; the description is kept as the values interpolated into it
Pattern(type, title, points, days, confidence, icon) ==
    [type |-> type, title |-> title,
     description |-> [points |-> ToFixed1(points), days |-> days],
     confidence |-> confidence, icon |-> icon]

\* the difference of the mean moods of two groups of entries
MoodGap(higher, lower) == FSub(Avg(higher, "mood"), Avg(lower, "mood"))

\* a variant that scales and caps the confidence as the social heuristic does
ExerciseBooster_SocialScale(diff) ==
    IF FGt(diff, FInt(1))
    THEN <<Pattern("booster", <<"", "Exercise Boosts Your Mood">>, diff, <<>>,
                   Min(90, MathRound(FMul(diff, FInt(12)))), "Dumbbell")>>
    ELSE <<>>

ExerciseBooster(diff) ==
    IF FGt(diff, FInt(1))
    THEN <<Pattern("booster", <<"", "Exercise Boosts Your Mood">>, diff, <<>>,
                   Min(95, MathRound(FMul(diff, FInt(15)))), "Dumbbell")>>
    ELSE <<>>

ExerciseGroups(withExercise, withoutExercise) ==
    IF Len(withExercise) > 3 /\ Len(withoutExercise) > 3
    THEN ExerciseBooster(MoodGap(withExercise, withoutExercise))
    ELSE <<>>

ExercisePattern(entries) ==
    ExerciseGroups(SelectSeq(entries, LAMBDA e : e.exercise),
                   SelectSeq(entries, LAMBDA e : ~e.exercise))

SocialBooster(diff) ==
    IF FGt(diff, FDivInt(8, 10))
    THEN <<Pattern("booster", <<"", "Social Connection Helps">>, diff, <<>>,
                   Min(90, MathRound(FMul(diff, FInt(12)))), "Users")>>
    ELSE <<>>

SocialGroups(withSocial, withoutSocial) ==
    IF Len(withSocial) > 3 /\ Len(withoutSocial) > 3
    THEN SocialBooster(MoodGap(withSocial, withoutSocial))
    ELSE <<>>

SocialPattern(entries) ==
    SocialGroups(SelectSeq(entries, LAMBDA e : e.social),
                 SelectSeq(entries, LAMBDA e : ~e.social))

SleepTrigger(diff) ==
    IF FGt(diff, FInt(1))
    THEN <<Pattern("trigger", <<"", "Poor Sleep Affects Your Mood">>, diff, <<>>,
                   Min(95, MathRound(FMul(diff, FInt(15)))), "Moon")>>
    ELSE <<>>

SleepGroups(goodSleep, poorSleep) ==
    IF Len(goodSleep) > 2 /\ Len(poorSleep) > 2
    THEN SleepTrigger(MoodGap(goodSleep, poorSleep))
    ELSE <<>>

SleepPattern(entries) ==
    SleepGroups(SelectSeq(entries, LAMBDA e : e.sleep >= 7),
                SelectSeq(entries, LAMBDA e : e.sleep < 5))

RECURSIVE DayKeysFrom(_, _, _)
\* the keys of dayMoods in insertion order: weekdays in order of first appearance
DayKeysFrom(entries, i, keys) ==
    IF i > Len(entries) THEN keys
    ELSE IF \E k \in 1..Len(keys) : keys[k] = LocalWeekday(entries[i].timestamp)
         THEN DayKeysFrom(entries, i + 1, keys)
         ELSE DayKeysFrom(entries, i + 1, Append(keys, LocalWeekday(entries[i].timestamp)))

DayAveragesOf(entries, keys) ==
    [k \in 1..Len(keys) |->
        [day |-> keys[k],
         avg |-> Avg(SelectSeq(entries, LAMBDA e : LocalWeekday(e.timestamp) = keys[k]),
                     "mood")]]

\* Object.entries(dayMoods).map(...): per weekday the mean mood of its entries
DayAverages(entries) == DayAveragesOf(entries, DayKeysFrom(entries, 1, <<>>))

RECURSIVE BestDayFrom(_, _, _)
\* reduce((best, curr) => curr.avg > best.avg ? curr : best, dayAverages[0])
BestDayFrom(dayAverages, i, best) ==
    IF i > Len(dayAverages) THEN best
    ELSE BestDayFrom(dayAverages, i + 1,
                     IF FGt(dayAverages[i].avg, best.avg) THEN dayAverages[i] ELSE best)

RECURSIVE WorstDayFrom(_, _, _)
\* reduce((worst, curr) => curr.avg < worst.avg ? curr : worst, dayAverages[0])
WorstDayFrom(dayAverages, i, worst) ==
    IF i > Len(dayAverages) THEN worst
    ELSE WorstDayFrom(dayAverages, i + 1,
                      IF FLt(dayAverages[i].avg, worst.avg) THEN dayAverages[i] ELSE worst)

HarderDay(bestDay, worstDay, diff) ==
    IF FGt(diff, FDivInt(15, 10))
    THEN <<Pattern("day", <<worstDay.day, "s Are Harder for You">>, diff,
                   <<worstDay.day, bestDay.day>>, 75, "Calendar")>>
    ELSE <<>>

DayExtremes(dayAverages, bestDay, worstDay) ==
    IF Len(dayAverages) >= 5
    THEN HarderDay(bestDay, worstDay, FSub(bestDay.avg, worstDay.avg))
    ELSE <<>>

DayPatternOf(dayAverages) ==
    DayExtremes(dayAverages, BestDayFrom(dayAverages, 1, dayAverages[1]),
                WorstDayFrom(dayAverages, 1, dayAverages[1]))

\* entries is not empty here: the detector has returned early below 7 entries
DayPattern(entries) == DayPatternOf(DayAverages(entries))

MeditationBooster(diff) ==
    IF FGt(diff, FInt(1))
    THEN <<Pattern("booster", <<"", "Meditation Reduces Anxiety">>, diff, <<>>,
                   85, "Brain")>>
    ELSE <<>>

MeditationGroup(entries, withMeditation) ==
    IF Len(withMeditation) > 3
    THEN MeditationBooster(FSub(Avg(entries, "anxiety"), Avg(withMeditation, "anxiety")))
    ELSE <<>>

MeditationPattern(entries) ==
    MeditationGroup(entries, SelectSeq(entries, LAMBDA e : e.meditation))

RECURSIVE InsertByConfidence(_, _)
InsertByConfidence(sorted, p) ==
    IF sorted = <<>> THEN <<p>>
    ELSE IF Head(sorted).confidence >= p.confidence
         THEN <<Head(sorted)>> \o InsertByConfidence(Tail(sorted), p)
         ELSE <<p>> \o sorted

RECURSIVE ByConfidenceFrom(_, _, _)
ByConfidenceFrom(ps, i, acc) ==
    IF i > Len(ps) THEN acc
    ELSE ByConfidenceFrom(ps, i + 1, InsertByConfidence(acc, ps[i]))

\* a variant that lists the patterns by falling confidence
Heuristics_ByConfidence(entries) ==
    ByConfidenceFrom(ExercisePattern(entries) \o SocialPattern(entries)
                        \o SleepPattern(entries) \o DayPattern(entries)
                        \o MeditationPattern(entries), 1, <<>>)

\* the five heuristics in the order they push their patterns
Heuristics(entries) ==
    ExercisePattern(entries) \o SocialPattern(entries) \o SleepPattern(entries)
        \o DayPattern(entries) \o MeditationPattern(entries)

\* a variant that asks for 6 entries instead of 7
Patterns_FromSix(entries) == IF Len(entries) < 6 THEN <<>> ELSE Heuristics(entries)

Patterns(entries) == IF Len(entries) < 7 THEN <<>> ELSE Heuristics(entries)

(***************************************************************************)
(* chart data (useMemo)                                                     *)
(***************************************************************************)
\* toLocaleDateString('en-US', {month: 'short', day: 'numeric'}): the local day
LocalDate(t) == (t + TzTicks) \div Day

Reverse(s) == [i \in 1..Len(s) |-> s[Len(s) + 1 - i]]

TrendPoints(recent) ==
    [i \in 1..Len(recent) |->
        [date |-> LocalDate(recent[i].timestamp), mood |-> recent[i].mood,
         energy |-> recent[i].energy, anxiety |-> recent[i].anxiety,
         sleep |-> recent[i].sleep]]

MoodTrendData(entries) == TrendPoints(Reverse(SubSeq(entries, 1, Min(30, Len(entries)))))

RadarAxis(category, value) == [category |-> category, value |-> value, fullMark |-> 10]

RadarAxes(parsed, density) ==
    <<RadarAxis("Mood", parsed.avgMood),
      RadarAxis("Energy", parsed.avgEnergy),
      RadarAxis("Sleep", parsed.avgSleep),
      RadarAxis("Exercise", density.exercise),
      RadarAxis("Social", density.social),
      RadarAxis("Low Anxiety", FSub(FInt(10), parsed.avgAnxiety))>>

WellnessRadarData(st) ==
    IF st = Null THEN <<>>
    ELSE RadarAxes([f \in {"avgMood", "avgEnergy", "avgSleep", "avgAnxiety"} |->
                        ParseFloat(st[f])],
                   Densities([exercise |-> st.exerciseCount, social |-> st.socialCount]))

(***************************************************************************)
(* The Insights component                                                   *)
(***************************************************************************)
VARIABLES
    now,                \* Date.now(), in ticks
    moodEntries,        \* useState<MoodEntry[]>([])
    quick,              \* quickMood .. quickMeditation, the quick-log form
    showQuickLog,       \* useState(false)
    isLoadingEntries,   \* useState(true)
    isSaving,           \* useState(false)
    loadPc,             \* where loadMoodEntries is: "start", "fetching" or "done"
    saveCalls,          \* the saveMoodEntry calls awaiting their response
    stats,              \* the four useMemo values of the last render
    patterns,
    moodTrendData,
    wellnessRadarData,
    lastAlert,          \* the text of the last alert() shown, "" before the first
    unmounted           \* requests of unmounted instances of the view: loads and
                        \* saves in flight, and how many have settled

memoVars == <<stats, patterns, moodTrendData, wellnessRadarData>>

formVars == <<quick, showQuickLog>>

vars == <<now, moodEntries, quick, showQuickLog, isLoadingEntries, isSaving, loadPc,
          saveCalls, stats, patterns, moodTrendData, wellnessRadarData, lastAlert,
          unmounted>>

QuickInit ==
    [mood |-> 5, energy |-> 5, anxiety |-> 5, sleep |-> 5,
     exercise |-> FALSE, social |-> FALSE, meditation |-> FALSE]

\* setMoodEntries(entries) and the render it causes: the memos depend on
\* [moodEntries] and are recomputed, reading the clock of that render
SetMoodEntries(entries) ==
    /\ moodEntries' = entries
    /\ stats' = Stats(entries, now)
    /\ patterns' = Patterns(entries)
    /\ moodTrendData' = MoodTrendData(entries)
    /\ wellnessRadarData' = WellnessRadarData(stats')

\* the component as mounted at time t: first render, effect about to run
Mounted(t) ==
    /\ now = t
    /\ moodEntries = <<>>
    /\ quick = QuickInit
    /\ showQuickLog = FALSE
    /\ isLoadingEntries = TRUE
    /\ isSaving = FALSE
    /\ loadPc = "start"
    /\ saveCalls = <<>>
    /\ stats = Stats(<<>>, t)
    /\ patterns = Patterns(<<>>)
    /\ moodTrendData = MoodTrendData(<<>>)
    /\ wellnessRadarData = WellnessRadarData(stats)
    /\ lastAlert = ""
    /\ unmounted = [loads |-> 0, saves |-> 0, settled |-> 0]

\* loadMoodEntries: no auth_token in localStorage
LoadNoToken ==
    /\ loadPc = "start"
    /\ loadPc' = "done"
    /\ isLoadingEntries' = FALSE
    /\ UNCHANGED <<now, moodEntries, formVars, isSaving, saveCalls, memoVars, lastAlert,
                   unmounted>>

\* loadMoodEntries: token present, the GET is sent
LoadFetch ==
    /\ loadPc = "start"
    /\ loadPc' = "fetching"
    /\ UNCHANGED <<now, moodEntries, formVars, isLoadingEntries, isSaving, saveCalls,
                   memoVars, lastAlert, unmounted>>

\* loadMoodEntries: response.ok, the logs are transformed and stored
LoadResponseOk(responses) ==
    /\ loadPc = "fetching"
    /\ \E logs \in responses : SetMoodEntries(logs)
    /\ loadPc' = "done"
    /\ isLoadingEntries' = FALSE
    /\ UNCHANGED <<now, formVars, isSaving, saveCalls, lastAlert, unmounted>>

\* loadMoodEntries: the response is not ok
LoadResponseNotOk ==
    /\ loadPc = "fetching"
    /\ loadPc' = "done"
    /\ isLoadingEntries' = FALSE
    /\ UNCHANGED <<now, moodEntries, formVars, isSaving, saveCalls, memoVars, lastAlert,
                   unmounted>>

\* a variant whose catch path leaves the loading flag set (no finally block)
LoadThrows_StillLoading ==
    /\ loadPc = "fetching"
    /\ loadPc' = "done"
    /\ UNCHANGED <<now, moodEntries, formVars, isLoadingEntries, isSaving, saveCalls,
                   memoVars, lastAlert, unmounted>>

\* loadMoodEntries: fetch or response.json() throws
LoadThrows ==
    /\ loadPc = "fetching"
    /\ loadPc' = "done"
    /\ isLoadingEntries' = FALSE
    /\ UNCHANGED <<now, moodEntries, formVars, isSaving, saveCalls, memoVars, lastAlert,
                   unmounted>>

\* the Log Mood buttons; the loading screen does not render them
OpenQuickLog ==
    /\ ~isLoadingEntries
    /\ ~showQuickLog
    /\ showQuickLog' = TRUE
    /\ UNCHANGED <<now, moodEntries, quick, isLoadingEntries, isSaving, loadPc, saveCalls,
                   memoVars, lastAlert, unmounted>>

\* the backdrop, the close button and Cancel
CloseQuickLog ==
    /\ showQuickLog
    /\ showQuickLog' = FALSE
    /\ UNCHANGED <<now, moodEntries, quick, isLoadingEntries, isSaving, loadPc, saveCalls,
                   memoVars, lastAlert, unmounted>>

\* the sliders and activity buttons of the form: setQuickMood .. setQuickMeditation;
\* edits[f] is the set of values the user gives field f
EditQuickLog(edits) ==
    /\ showQuickLog
    /\ \E f \in DOMAIN edits : \E v \in edits[f] :
          /\ v # quick[f]
          /\ quick' = [quick EXCEPT ![f] = v]
    /\ UNCHANGED <<now, moodEntries, showQuickLog, isLoadingEntries, isSaving, loadPc,
                   saveCalls, memoVars, lastAlert, unmounted>>

\* <Button disabled={isSaving}>: the submit button takes no click while a
\* save is outstanding
SubmitDisabled == isSaving

\* saveMoodEntry without a token: isSaving is set and cleared in the same
\* synchronous run, the alert is shown, nothing else changes
SaveNoToken ==
    /\ showQuickLog
    /\ ~SubmitDisabled
    /\ isSaving' = FALSE
    /\ lastAlert' = "Please log in to save mood entries"
    /\ UNCHANGED <<now, moodEntries, formVars, isLoadingEntries, loadPc, saveCalls,
                   memoVars, unmounted>>

\* a variant of the submit that does not call setIsSaving(true)
SaveFetch_NoBusyFlag(maxEntries) ==
    /\ showQuickLog
    /\ ~SubmitDisabled
    /\ Len(moodEntries) < maxEntries
    /\ saveCalls' = Append(saveCalls, [body |-> quick, moodEntries |-> moodEntries,
                                       sentAt |-> now])
    /\ UNCHANGED <<now, moodEntries, formVars, isLoadingEntries, isSaving, loadPc,
                   memoVars, lastAlert, unmounted>>

\* saveMoodEntry with a token: the POST is sent; the call keeps the form
\* values of its body and the moodEntries of the render that created it
SaveFetch(maxEntries) ==
    /\ showQuickLog
    /\ ~SubmitDisabled
    /\ Len(moodEntries) < maxEntries
    /\ isSaving' = TRUE
    /\ saveCalls' = Append(saveCalls, [body |-> quick, moodEntries |-> moodEntries,
                                       sentAt |-> now])
    /\ UNCHANGED <<now, moodEntries, formVars, isLoadingEntries, loadPc, memoVars,
                   lastAlert, unmounted>>

RemoveAt(s, i) == SubSeq(s, 1, i - 1) \o SubSeq(s, i + 1, Len(s))

\* a variant that stores the new entry alone: setMoodEntries([newEntry])
SaveResponseOk_OnlyNewEntry ==
    \E i \in 1..Len(saveCalls) : \E createdAt \in saveCalls[i].sentAt..now :
        LET call     == saveCalls[i]
            newEntry == MoodEntry(createdAt, call.body.mood, call.body.energy,
                                  call.body.anxiety, call.body.sleep, call.body.exercise,
                                  call.body.social, call.body.meditation)
        IN  /\ SetMoodEntries(<<newEntry>>)
            /\ showQuickLog' = FALSE
            /\ isSaving' = FALSE
            /\ saveCalls' = RemoveAt(saveCalls, i)
            /\ UNCHANGED <<now, quick, isLoadingEntries, loadPc, lastAlert, unmounted>>

\* saveMoodEntry: response.ok; the saved log carries the server's created_at
SaveResponseOk ==
    \E i \in 1..Len(saveCalls) : \E createdAt \in saveCalls[i].sentAt..now :
        LET call     == saveCalls[i]
            newEntry == MoodEntry(createdAt, call.body.mood, call.body.energy,
                                  call.body.anxiety, call.body.sleep, call.body.exercise,
                                  call.body.social, call.body.meditation)
        IN  /\ SetMoodEntries(<<newEntry>> \o call.moodEntries)
            /\ showQuickLog' = FALSE
            /\ isSaving' = FALSE
            /\ saveCalls' = RemoveAt(saveCalls, i)
            /\ UNCHANGED <<now, quick, isLoadingEntries, loadPc, lastAlert, unmounted>>

\* saveMoodEntry: the response is not ok, the error detail is alerted
SaveResponseNotOk ==
    \E i \in 1..Len(saveCalls) :
        /\ isSaving' = FALSE
        /\ saveCalls' = RemoveAt(saveCalls, i)
        /\ lastAlert' = "Failed to save mood entry: detail"
        /\ UNCHANGED <<now, moodEntries, formVars, isLoadingEntries, loadPc, memoVars,
                       unmounted>>

\* a variant whose catch path leaves the busy flag set (no finally block)
SaveThrows_StillBusy ==
    \E i \in 1..Len(saveCalls) :
        /\ saveCalls' = RemoveAt(saveCalls, i)
        /\ lastAlert' = "Failed to save mood entry. Please try again."
        /\ UNCHANGED <<now, moodEntries, formVars, isLoadingEntries, isSaving, loadPc,
                       memoVars, unmounted>>

\* saveMoodEntry: fetch or response.json() throws
SaveThrows ==
    \E i \in 1..Len(saveCalls) :
        /\ isSaving' = FALSE
        /\ saveCalls' = RemoveAt(saveCalls, i)
        /\ lastAlert' = "Failed to save mood entry. Please try again."
        /\ UNCHANGED <<now, moodEntries, formVars, isLoadingEntries, loadPc, memoVars,
                       unmounted>>

\* time passes
Tick(maxNow) ==
    /\ now < maxNow
    /\ now' = now + 1
    /\ UNCHANGED <<moodEntries, formVars, isLoadingEntries, isSaving, loadPc, saveCalls,
                   memoVars, lastAlert, unmounted>>

(***************************************************************************)
(* The view from its mount: the load, quick logs, and time passing          *)
(***************************************************************************)
\* the clock at mount: the start of a UTC day
Now0 == 20 * Day

MaxTicks == 2

MaxViewEntries == 2

Neutral(ts) == MoodEntry(ts, 5, 5, 5, 5, FALSE, FALSE, FALSE)

Best(ts) == MoodEntry(ts, 10, 10, 0, 10, TRUE, TRUE, FALSE)

Copies(n, e) == [i \in 1..n |-> e]

\* what the server answers to the load
ViewResponses ==
    { <<>>,
      <<Neutral(Now0 - 8 * Day)>>,
      <<Neutral(Now0 - Day), Neutral(Now0)>>,
      <<Best(Now0), MoodEntry(Now0 - 7 * Day, 0, 0, 10, 0, FALSE, FALSE, TRUE)>>,
      Copies(8, Best(Now0 - 1)) }

ViewEdits == [mood |-> {8}, exercise |-> BOOLEAN]

Init == Mounted(Now0)

Next ==
    \/ LoadNoToken
    \/ LoadFetch
    \/ LoadResponseOk(ViewResponses)
    \/ LoadResponseNotOk
    \/ LoadThrows
    \/ OpenQuickLog
    \/ CloseQuickLog
    \/ EditQuickLog(ViewEdits)
    \/ SaveNoToken
    \/ SaveFetch(MaxViewEntries)
    \/ SaveResponseOk
    \/ SaveResponseNotOk
    \/ SaveThrows
    \/ Tick(Now0 + MaxTicks)

Spec == Init /\ [][Next]_vars

(***************************************************************************)
(* The load and the saves on every path, failures included, at one instant *)
(***************************************************************************)
MaxSaveEntries == 2

SaveResponses == {<<>>, <<Neutral(Now0 - 8 * Day)>>}

SaveEdits == [mood |-> {8}]

InitSave == Mounted(Now0)

NextSave ==
    \/ LoadNoToken
    \/ LoadFetch
    \/ LoadResponseOk(SaveResponses)
    \/ LoadResponseNotOk
    \/ LoadThrows
    \/ OpenQuickLog
    \/ CloseQuickLog
    \/ EditQuickLog(SaveEdits)
    \/ SaveNoToken
    \/ SaveFetch(MaxSaveEntries)
    \/ SaveResponseOk
    \/ SaveResponseNotOk
    \/ SaveThrows

SpecSave == InitSave /\ [][NextSave]_vars

\* the effect runs after the mount, and the promise of fetch settles
LoadStarts == LoadNoToken \/ LoadFetch

LoadSettles == LoadResponseOk(SaveResponses) \/ LoadResponseNotOk \/ LoadThrows

SpecSaveFair == SpecSave /\ WF_vars(LoadStarts) /\ WF_vars(LoadSettles)

(***************************************************************************)
(* The streak: collections as the server can deliver them, in any order,   *)
(* each extended by quick logs                                             *)
(***************************************************************************)
MaxStreakEntries == 3

StreakSpan == 2

\* creation times around the day of t: the first and the last tick of each of
\* the StreakSpan days before it and of the day itself, and the first tick of
\* the next day (a server clock ahead of the browser's)
StreakTimes(t) ==
    {d * Day + p : d \in (IsoDate(t) - StreakSpan)..IsoDate(t), p \in {0, Day - 1}}
        \cup {(IsoDate(t) + 1) * Day}

SeqsUpTo(S, n) == UNION {[1..k -> S] : k \in 0..n}

\* the clock of the streak runs: the last tick of a UTC day
StreakNow == Now0 + Day - 1

StreakResponses ==
    {[i \in DOMAIN ts |-> Neutral(ts[i])] :
        ts \in SeqsUpTo(StreakTimes(StreakNow), MaxStreakEntries)}

InitStreak == Mounted(StreakNow)

NextStreak ==
    \/ LoadFetch
    \/ LoadResponseOk(StreakResponses)
    \/ OpenQuickLog
    \/ CloseQuickLog
    \/ SaveFetch(MaxStreakEntries + 1)
    \/ SaveResponseOk

SpecStreak == InitStreak /\ [][NextStreak]_vars

(***************************************************************************)
(* The pattern detector: collections that split into the entries with an   *)
(* activity and the entries without it, each extended by quick logs         *)
(***************************************************************************)
MaxGroup == 5

MaxLogged == 8

Logged(mood, exercise, social) == MoodEntry(0, mood, 5, 5, 5, exercise, social, FALSE)

\* n entries of one activity setting: k of them of mood + step, the others
\* of mood
Group(n, k, mood, step, exercise, social) ==
    [j \in 1..n |-> Logged(IF j <= k THEN mood + step ELSE mood, exercise, social)]

\* the j-th entry of a response was created j ticks before the mount
Stamped(entries) ==
    [j \in 1..Len(entries) |-> [entries[j] EXCEPT !.timestamp = Now0 - j]]

\* exercise entries of mood 2 or 3 and entries without exercise of mood 1 or
\* 2: the means differ by about 1
ExerciseSplits ==
    {Stamped(Group(n1, k1, 2, 1, TRUE, FALSE) \o Group(n2, k2, 1, 1, FALSE, FALSE)) :
        n1 \in 3..MaxGroup, n2 \in 3..MaxGroup, k1 \in 0..1, k2 \in 0..1}

\* social entries of mood 9 or 8 and entries without social contact of mood
\* 8: the means differ by about 0.8
SocialSplits ==
    {Stamped(Group(n1, k1, 9, -1, FALSE, TRUE) \o Group(n2, 0, 8, 0, FALSE, FALSE)) :
        n1 \in 3..MaxGroup, n2 \in 3..MaxGroup, k1 \in 0..1}

\* exercise entries of mood 8 and entries without exercise of mood 5, three
\* or four of each, in blocks either way round
EightAndFive ==
    UNION {{Stamped(Group(n1, 0, 8, 0, TRUE, FALSE) \o Group(n2, 0, 5, 0, FALSE, FALSE)),
            Stamped(Group(n2, 0, 5, 0, FALSE, FALSE) \o Group(n1, 0, 8, 0, TRUE, FALSE))} :
           n1 \in 3..4, n2 \in 3..4}

\* four of each, alternating
EightAndFiveAlternating ==
    Stamped([j \in 1..8 |-> IF j % 2 = 1 THEN Logged(8, TRUE, FALSE)
                                        ELSE Logged(5, FALSE, FALSE)])

\* three entries after good sleep with mood 8, three after poor sleep with
\* mood 3
SleepSplit ==
    Stamped([j \in 1..6 |-> IF j <= 3 THEN MoodEntry(0, 8, 5, 5, 8, FALSE, FALSE, FALSE)
                                      ELSE MoodEntry(0, 3, 5, 5, 3, FALSE, FALSE, FALSE)])

DetectResponses ==
    ExerciseSplits \cup SocialSplits \cup EightAndFive
        \cup {EightAndFiveAlternating, SleepSplit}

DetectEdits == [mood |-> {8}, exercise |-> BOOLEAN]

InitDetect == Mounted(Now0)

NextDetect ==
    \/ LoadFetch
    \/ LoadResponseOk(DetectResponses)
    \/ OpenQuickLog
    \/ EditQuickLog(DetectEdits)
    \/ SaveFetch(MaxLogged)
    \/ SaveResponseOk

SpecDetect == InitDetect /\ [][NextDetect]_vars

(***************************************************************************)
(* The sleep, day-of-week and meditation heuristics and the order of the   *)
(* pattern list: collections built for each heuristic, each extended by    *)
(* quick logs                                                              *)
(***************************************************************************)
MaxSleepGroup == 3

Slept(mood, sleep) == MoodEntry(0, mood, 5, 5, sleep, FALSE, FALSE, FALSE)

\* n entries with the given sleep: k of them of mood + 1, the others of mood
SleptGroup(n, k, mood, sleep) ==
    [j \in 1..n |-> Slept(IF j <= k THEN mood + 1 ELSE mood, sleep)]

\* entries after good sleep of mood 2 or 3, entries after poor sleep of mood
\* 1 or 2 (the means differ by about 1), and one or two entries with sleep 5
\* or 6 of mood 0 or 10
SleepSplits ==
    {Stamped(SleptGroup(n1, k1, 2, 7) \o SleptGroup(n2, k2, 1, 4)
             \o SleptGroup(n3, 0, m3, 4 + n3)) :
        n1 \in 2..MaxSleepGroup, n2 \in 2..MaxSleepGroup, k1 \in 0..1, k2 \in 0..1,
        n3 \in 1..2, m3 \in {0, 10}}

Meditated(anxiety, meditation) == MoodEntry(0, 5, 5, anxiety, 5, FALSE, FALSE, meditation)

\* n entries with or without meditation: k of them of anxiety + 1, the
\* others of anxiety
MeditatedGroup(n, k, anxiety, meditation) ==
    [j \in 1..n |-> Meditated(IF j <= k THEN anxiety + 1 ELSE anxiety, meditation)]

\* meditation entries of anxiety 1 or 2 and entries without meditation of
\* anxiety 3 or 4: the mean over all entries is about 1 above the mean over
\* the meditation entries
MeditationSplits ==
    {Stamped(MeditatedGroup(n1, k1, 1, TRUE) \o MeditatedGroup(n2, k2, 3, FALSE)) :
        n1 \in 3..MaxGroup, n2 \in 3..MaxGroup, k1 \in 0..1, k2 \in 0..1}

MaxWeekdays == 5

\* n entries created at the first tick of the day d days before the mount:
\* k of them of mood + step, the others of mood
DayGroup(d, n, k, mood, step) ==
    [j \in 1..n |-> MoodEntry(Now0 - d * Day, IF j <= k THEN mood + step ELSE mood,
                              5, 5, 5, FALSE, FALSE, FALSE)]

\* one entry of mood 3 on each of the days 3 .. w days before the mount
OtherDays(w) == [j \in 1..(w - 2) |-> DayGroup(j + 2, 1, 0, 3, 0)[1]]

\* three entries of mood 3 or 4 yesterday, six entries of mood 2 or 1 on the
\* weekday of the day before (three of them a week earlier), and one entry
\* of mood 3 on each further weekday, w weekdays in all: the best and the
\* worst weekday differ by about 1.5
DaySplits ==
    {DayGroup(1, 3, kA, 3, 1) \o DayGroup(2, 3, kB, 2, -1) \o DayGroup(9, 3, 0, 2, 0)
        \o OtherDays(w) :
        kA \in 0..2, kB \in 0..1, w \in 4..MaxWeekdays}

\* n entries with every activity, good sleep, mood 9 and anxiety 1, then n
\* entries without any, poor sleep, mood 3 and anxiety 8, two entries a day
AllFive(n) ==
    [j \in 1..(2 * n) |->
        IF j <= n THEN MoodEntry(Now0 - ((j + 1) \div 2) * Day, 9, 5, 1, 8, TRUE, TRUE, TRUE)
                  ELSE MoodEntry(Now0 - ((j + 1) \div 2) * Day, 3, 5, 8, 3,
                                 FALSE, FALSE, FALSE)]

HeuristicResponses ==
    SleepSplits \cup MeditationSplits \cup DaySplits \cup {AllFive(n) : n \in 4..MaxGroup}

HeuristicEdits == [sleep |-> {8}, meditation |-> BOOLEAN]

InitHeuristics == Mounted(Now0)

NextHeuristics ==
    \/ LoadFetch
    \/ LoadResponseOk(HeuristicResponses)
    \/ OpenQuickLog
    \/ EditQuickLog(HeuristicEdits)
    \/ SaveFetch(MaxLogged)
    \/ SaveResponseOk

SpecHeuristics == InitHeuristics /\ [][NextHeuristics]_vars

(***************************************************************************)
(* The windows of the snapshot: entries created at and next to the edges   *)
(* of the last 7 days and of the week before                               *)
(***************************************************************************)
MaxWindowEntries == 2

\* the tick before, at and after 14 days and 7 days before t, and t itself
WindowTimes(t) ==
    {t - 14 * Day + k : k \in -1..1} \cup {t - 7 * Day + k : k \in -1..1} \cup {t}

WindowResponses ==
    {[i \in DOMAIN c |-> MoodEntry(c[i][1], c[i][2], 5, 5, 5, FALSE, FALSE, FALSE)] :
        c \in SeqsUpTo(WindowTimes(Now0) \X {2, 8}, MaxWindowEntries)}

InitWindows == Mounted(Now0)

NextWindows ==
    \/ LoadFetch
    \/ LoadResponseOk(WindowResponses)
    \/ OpenQuickLog
    \/ SaveFetch(MaxWindowEntries + 1)
    \/ SaveResponseOk

SpecWindows == InitWindows /\ [][NextWindows]_vars

(***************************************************************************)
(* Renders during which the clock advances.  The stats memo calls          *)
(* Date.now() anew in the last-7-days filter, in the last-30-days filter,  *)
(* in the streak loop and twice in the prior-week filter; r gives the      *)
(* value each of these expressions reads                                   *)
(***************************************************************************)
MaxRenderTicks == 1

\* e.timestamp < Date.now() - 7 days && e.timestamp > Date.now() - 14 days
PrevWeekReading(entries, upper, lower) ==
    SelectSeq(entries, LAMBDA e : e.timestamp < upper - 7 * Day
                                  /\ e.timestamp > lower - 14 * Day)

MoodChangeReading(avg, prevWeek) == ToFixed1(FSub(avg.mood, OrZero(Avg(prevWeek, "mood"))))

\* the snapshot of a non-empty collection when the clock reads r.last7,
\* r.last30, r.streak, r.prevUpper and r.prevLower in turn
StatsOfReading(entries, r) ==
    [StatsOf(entries, r.last7) EXCEPT
        !.last30Days    = Len(Last30Days(entries, r.last30)),
        !.currentStreak = CurrentStreak(entries, r.streak),
        !.moodChange    = MoodChangeReading(Averages(Last7Days(entries, r.last7)),
                                            PrevWeekReading(entries, r.prevUpper,
                                                            r.prevLower))]

StatsReading(entries, r) == IF Len(entries) = 0 THEN Null ELSE StatsOfReading(entries, r)

\* what the clock can read in a render that starts at t: it never goes back
\* and advances by at most MaxRenderTicks
ClockReadings(t) ==
    {r \in [{"last7", "last30", "streak", "prevUpper", "prevLower"}
                -> t..(t + MaxRenderTicks)] :
        /\ r.last7 <= r.last30
        /\ r.last30 <= r.streak
        /\ r.streak <= r.prevUpper
        /\ r.prevUpper <= r.prevLower}

\* setMoodEntries(entries) and the render it causes, the clock reading r
SetMoodEntriesReading(entries, r) ==
    /\ moodEntries' = entries
    /\ stats' = StatsReading(entries, r)
    /\ patterns' = Patterns(entries)
    /\ moodTrendData' = MoodTrendData(entries)
    /\ wellnessRadarData' = WellnessRadarData(stats')
    /\ now' = r.prevLower

\* loadMoodEntries: response.ok, with the clock advancing during the render
LoadResponseOkReading(responses) ==
    /\ loadPc = "fetching"
    /\ \E logs \in responses : \E r \in ClockReadings(now) :
          SetMoodEntriesReading(logs, r)
    /\ loadPc' = "done"
    /\ isLoadingEntries' = FALSE
    /\ UNCHANGED <<formVars, isSaving, saveCalls, lastAlert, unmounted>>

InitClock == Mounted(Now0)

NextClock ==
    \/ LoadFetch
    \/ LoadResponseOkReading(WindowResponses)
    \/ OpenQuickLog

SpecClock == InitClock /\ [][NextClock]_vars

(***************************************************************************)
(* Ten entries, one per UTC day for the last ten days, the newest today;   *)
(* the view is mounted at any time of day and each entry was created at    *)
(* some time of its day                                                    *)
(***************************************************************************)
ScenarioMoods == <<8, 7, 6, 5, 7, 6, 5, 7, 6, 5>>

\* how many of the entries were created later than the first tick of their day
MaxLate == 2

ScenarioNows == Now0..(Now0 + Day - 1)

\* the entry of the day i - 1 days before t, created at tick timeOfDay of that day
ScenarioEntry(t, i, timeOfDay) ==
    MoodEntry((IsoDate(t) - (i - 1)) * Day + timeOfDay, ScenarioMoods[i], 6, 3, 7,
              FALSE, FALSE, FALSE)

ScenarioLog(t, late, timeOfDay) ==
    [i \in DOMAIN ScenarioMoods |-> ScenarioEntry(t, i, IF i \in late THEN timeOfDay ELSE 0)]

SubsetsUpTo(S, n) == {L \in SUBSET S : Cardinality(L) <= n}

ScenarioLogs(t) ==
    {ScenarioLog(t, late, timeOfDay) :
        late \in SubsetsUpTo(DOMAIN ScenarioMoods, MaxLate), timeOfDay \in 1..(Day - 1)}

\* the logs as the server lists them, newest first; nothing is created after t
ScenarioResponses(t) == {log \in ScenarioLogs(t) : log[1].timestamp <= t}

InitScenario == \E t \in ScenarioNows : Mounted(t)

NextScenario ==
    \/ LoadFetch
    \/ LoadResponseOk(ScenarioResponses(now))
    \/ OpenQuickLog

SpecScenario == InitScenario /\ [][NextScenario]_vars

(***************************************************************************)
(* The view left and re-opened: the route unmounts this instance of the    *)
(* component and mounts a new one, whose state starts afresh and whose     *)
(* effect loads again.  The requests of the unmounted instance are still   *)
(* in flight; when they settle, the state setters they call belong to the  *)
(* unmounted instance, and React drops such updates                        *)
(***************************************************************************)
MaxUnmountedCalls == 2

InFlight == Len(saveCalls) + (IF loadPc = "fetching" THEN 1 ELSE 0)

Remount(maxCalls) ==
    /\ unmounted.loads + unmounted.saves + unmounted.settled + InFlight <= maxCalls
    /\ unmounted' = [unmounted EXCEPT
                        !.loads = @ + (IF loadPc = "fetching" THEN 1 ELSE 0),
                        !.saves = @ + Len(saveCalls)]
    /\ moodEntries' = <<>>
    /\ quick' = QuickInit
    /\ showQuickLog' = FALSE
    /\ isLoadingEntries' = TRUE
    /\ isSaving' = FALSE
    /\ loadPc' = "start"
    /\ saveCalls' = <<>>
    /\ stats' = Stats(<<>>, now)
    /\ patterns' = Patterns(<<>>)
    /\ moodTrendData' = MoodTrendData(<<>>)
    /\ wellnessRadarData' = WellnessRadarData(stats')
    /\ UNCHANGED <<now, lastAlert>>

\* a variant in which the collection lives outside the component, so that
\* the response of the unmounted instance's fetch reaches the mounted view
UnmountedLoadSettles_Applied ==
    /\ unmounted.loads > 0
    /\ unmounted' = [unmounted EXCEPT !.loads = @ - 1, !.settled = @ + 1]
    /\ \E logs \in ViewResponses : SetMoodEntries(logs)
    /\ isLoadingEntries' = FALSE
    /\ UNCHANGED <<now, formVars, isSaving, loadPc, saveCalls, lastAlert>>

\* the fetch of an unmounted instance settles: setMoodEntries and
\* setIsLoadingEntries of that instance change nothing that is mounted
UnmountedLoadSettles ==
    /\ unmounted.loads > 0
    /\ unmounted' = [unmounted EXCEPT !.loads = @ - 1, !.settled = @ + 1]
    /\ UNCHANGED <<now, moodEntries, formVars, isLoadingEntries, isSaving, loadPc,
                   saveCalls, memoVars, lastAlert>>

\* the save of an unmounted instance settles: its setters change nothing
\* that is mounted; a failure still shows its alert
UnmountedSaveSettles ==
    /\ unmounted.saves > 0
    /\ unmounted' = [unmounted EXCEPT !.saves = @ - 1, !.settled = @ + 1]
    /\ lastAlert' \in {lastAlert, "Failed to save mood entry: detail",
                       "Failed to save mood entry. Please try again."}
    /\ UNCHANGED <<now, moodEntries, formVars, isLoadingEntries, isSaving, loadPc,
                   saveCalls, memoVars>>

InitRemount == Mounted(Now0)

NextRemount ==
    \/ LoadNoToken
    \/ LoadFetch
    \/ LoadResponseOk(ViewResponses)
    \/ LoadThrows
    \/ OpenQuickLog
    \/ SaveFetch(MaxViewEntries)
    \/ SaveResponseOk
    \/ SaveThrows
    \/ Remount(MaxUnmountedCalls)
    \/ UnmountedLoadSettles
    \/ UnmountedSaveSettles

SpecRemount == InitRemount /\ [][NextRemount]_vars

(***************************************************************************)
(* Collections whose entries were all created 7 days ago or earlier, each  *)
(* extended by quick logs                                                  *)
(***************************************************************************)
MaxOldEntries == 2

Worst(ts) == MoodEntry(ts, 0, 0, 10, 0, FALSE, FALSE, TRUE)

OldTimes == {Now0 - 7 * Day, Now0 - 7 * Day - 1, Now0 - 30 * Day}

OldEntries == {Best(ts) : ts \in OldTimes} \cup {Neutral(ts) : ts \in OldTimes}
                \cup {Worst(ts) : ts \in OldTimes}

OldResponses == SeqsUpTo(OldEntries, MaxOldEntries)

InitOld == Mounted(Now0)

NextOld ==
    \/ LoadFetch
    \/ LoadResponseOk(OldResponses)
    \/ OpenQuickLog
    \/ SaveFetch(MaxOldEntries + 1)
    \/ SaveResponseOk

SpecOld == InitOld /\ [][NextOld]_vars

(***************************************************************************)
(* Properties                                                               *)
(***************************************************************************)
MetricsInRange(entries) ==
    \A i \in 1..Len(entries) :
        /\ entries[i].mood \in 0..10
        /\ entries[i].energy \in 0..10
        /\ entries[i].anxiety \in 0..10
        /\ entries[i].sleep \in 0..10

\* C1: for every non-empty collection whose mood, energy, anxiety and sleep
\* values are all in 0..10, the wellness score of the snapshot is an integer
\* between 0 and 100
C1_WellnessScoreInRange ==
    (Len(moodEntries) > 0 /\ MetricsInRange(moodEntries))
        => stats.wellnessScore \in 0..100

\* C6: for the empty collection the snapshot is null and the pattern list,
\* the trend series and the radar data are empty
C6_EmptyCollection ==
    Len(moodEntries) = 0
        => /\ stats = Null
           /\ patterns = <<>>
           /\ moodTrendData = <<>>
           /\ wellnessRadarData = <<>>

\* the load has ended and left the collection empty
C6_Witness ==
    /\ loadPc = "done"
    /\ Len(moodEntries) = 0
    /\ stats = Null
    /\ wellnessRadarData = <<>>

\* C7: the snapshot is null only for the empty collection; for every other
\* collection it carries a streak and totalEntries equal to the collection size
C7_SnapshotOfNonEmpty ==
    /\ stats = Null <=> Len(moodEntries) = 0
    /\ Len(moodEntries) > 0
          => /\ stats.totalEntries = Len(moodEntries)
             /\ stats.currentStreak \in 0..Len(moodEntries)

\* a collection of fewer than 7 entries, none of them in the last 7 days
C7_Witness ==
    /\ Len(moodEntries) \in 1..6
    /\ stats # Null
    /\ stats.last7Days = 0
    /\ stats.totalEntries = Len(moodEntries)

\* entries has an entry created on day d
OnDay(entries, d) == \E i \in 1..Len(entries) : IsoDate(entries[i].timestamp) = d

\* every entry of entries was created before the day of t
BeforeDay(entries, t) ==
    \A i \in 1..Len(entries) : IsoDate(entries[i].timestamp) < IsoDate(t)

RECURSIVE CoveredDaysFrom(_, _, _)
\* the number of consecutive days, counted back from the day of t and k of
\* them counted so far, on which entries has an entry
CoveredDaysFrom(entries, t, k) ==
    IF OnDay(entries, IsoDate(t) - k) THEN CoveredDaysFrom(entries, t, k + 1) ELSE k

\* C2: the newest-added entry (the head of the collection) falling on a day
\* the rest of the collection already covers leaves the streak what it is
\* for the rest of the collection
C2_SameDayEntryKeepsStreak ==
    (/\ Len(moodEntries) > 1
     /\ OnDay(Tail(moodEntries), IsoDate(Head(moodEntries).timestamp)))
        => stats.currentStreak = CurrentStreak(Tail(moodEntries), now)

\* C3 as stated: when the rest of the collection has streak N and no entry
\* created today, the collection with an entry created today added has
\* streak N + 1
C3_TodayEntryAddsOne ==
    (/\ Len(moodEntries) > 0
     /\ IsoDate(Head(moodEntries).timestamp) = IsoDate(now)
     /\ ~OnDay(Tail(moodEntries), IsoDate(now)))
        => stats.currentStreak = CurrentStreak(Tail(moodEntries), now) + 1

\* C3: when the rest of the collection has no entry created today or later,
\* its streak is 0, and the collection with an entry created today added has
\* streak 1 + the streak of the rest as computed for the day before
C3_TodayEntryExtendsYesterdaysStreak ==
    (/\ Len(moodEntries) > 0
     /\ IsoDate(Head(moodEntries).timestamp) = IsoDate(now)
     /\ BeforeDay(Tail(moodEntries), now))
        => /\ CurrentStreak(Tail(moodEntries), now) = 0
           /\ stats.currentStreak = 1 + CurrentStreak(Tail(moodEntries), now - Day)

\* a quick log saved now on top of a loaded collection whose entries cover
\* yesterday and the day before: the streak is 3, the rest alone has 0
C3_Witness ==
    /\ Len(moodEntries) > MaxStreakEntries
    /\ saveCalls = <<>>
    /\ Head(moodEntries).timestamp = now
    /\ BeforeDay(Tail(moodEntries), now)
    /\ CurrentStreak(Tail(moodEntries), now) = 0
    /\ CurrentStreak(Tail(moodEntries), now - Day) = 2
    /\ stats.currentStreak = 3

\* C4: the streak is at most the number of consecutive days, counted back
\* from today, on which an entry was created
C4_StreakWithinCoveredDays ==
    Len(moodEntries) > 0 => stats.currentStreak <= CoveredDaysFrom(moodEntries, now, 0)

\* a quick log saved now on top of a loaded collection that has an entry of
\* today already and covers the two days before: the second entry of today
\* ends the walk
C4_Witness ==
    /\ Len(moodEntries) > MaxStreakEntries
    /\ saveCalls = <<>>
    /\ Head(moodEntries).timestamp = now
    /\ OnDay(Tail(moodEntries), IsoDate(now))
    /\ CoveredDaysFrom(moodEntries, now, 0) = 3
    /\ stats.currentStreak = 1

\* C5: a collection of fewer than 7 entries has no patterns
C5_FewerThanSevenNoPatterns == Len(moodEntries) < 7 => patterns = <<>>

\* six entries that meet the sleep heuristic's group sizes and effect size
C5_Witness ==
    /\ loadPc = "done"
    /\ Len(moodEntries) = 6
    /\ SleepPattern(moodEntries) # <<>>
    /\ patterns = <<>>

\* the patterns of ps with the given title
Titled(ps, text) == SelectSeq(ps, LAMBDA p : p.title = <<"", text>>)

WithMood(entries, exercise, mood) ==
    SelectSeq(entries, LAMBDA e : e.exercise = exercise /\ e.mood = mood)

\* four exercise entries of mood 8, four entries without exercise of mood 5,
\* and no others
FourAndFour(entries) ==
    /\ Len(entries) = 8
    /\ Len(WithMood(entries, TRUE, 8)) = 4
    /\ Len(WithMood(entries, FALSE, 5)) = 4

GapNum(with, without) ==
    SumOf(with, "mood") * Len(without) - SumOf(without, "mood") * Len(with)

GapDen(with, without) == Len(with) * Len(without)

\* round(num / den * scale) for num > 0: the integer nearest, halves up
RoundScaled(num, den, scale) == (2 * scale * num + den) \div (2 * den)

\* the pattern titled text is in ps exactly when both groups have more than
\* 3 entries and the difference of their mean moods is above tenths / 10,
\* and then its confidence is min(cap, round(difference * scale))
EmittedExactly(ps, text, with, without, tenths, scale, cap) ==
    /\ Titled(ps, text) # <<>>
          <=> /\ Len(with) > 3
              /\ Len(without) > 3
              /\ 10 * GapNum(with, without) > tenths * GapDen(with, without)
    /\ Titled(ps, text) # <<>>
          => Titled(ps, text)[1].confidence
                = Min(cap, RoundScaled(GapNum(with, without), GapDen(with, without), scale))

\* C9: with at least 7 entries the exercise booster is emitted exactly when
\* more than 3 entries have exercise, more than 3 lack it and the mean mood
\* of the former exceeds that of the latter by more than 1.0, and then with
\* confidence min(95, round(diff * 15))
C9_ExerciseBoosterExactly ==
    Len(moodEntries) >= 7
        => EmittedExactly(patterns, "Exercise Boosts Your Mood",
                          SelectSeq(moodEntries, LAMBDA e : e.exercise),
                          SelectSeq(moodEntries, LAMBDA e : ~e.exercise), 10, 15, 95)

\* C10: with at least 7 entries the social booster is emitted exactly when
\* more than 3 entries have social contact, more than 3 lack it and the mean
\* moods differ by more than 0.8, and then with confidence
\* min(90, round(diff * 12))
C10_SocialBoosterExactly ==
    Len(moodEntries) >= 7
        => EmittedExactly(patterns, "Social Connection Helps",
                          SelectSeq(moodEntries, LAMBDA e : e.social),
                          SelectSeq(moodEntries, LAMBDA e : ~e.social), 8, 12, 90)

\* the mean mood (or other field) of the non-empty group higher exceeds that
\* of the non-empty group lower by more than tenths / 10, in exact arithmetic
MeanAbove(higher, lower, field, tenths) ==
    10 * (SumOf(higher, field) * Len(lower) - SumOf(lower, field) * Len(higher))
        > tenths * Len(higher) * Len(lower)

\* C11: with at least 7 entries the sleep trigger is emitted exactly when
\* more than 2 entries have sleep >= 7, more than 2 have sleep < 5 and the
\* mean mood of the former exceeds that of the latter by more than 1.0; the
\* entries with sleep 5 or 6 have no part in it
C11_SleepTriggerExactly ==
    Len(moodEntries) >= 7
        => /\ Titled(patterns, "Poor Sleep Affects Your Mood") # <<>>
                 <=> /\ Len(SelectSeq(moodEntries, LAMBDA e : e.sleep >= 7)) > 2
                     /\ Len(SelectSeq(moodEntries, LAMBDA e : e.sleep < 5)) > 2
                     /\ MeanAbove(SelectSeq(moodEntries, LAMBDA e : e.sleep >= 7),
                                  SelectSeq(moodEntries, LAMBDA e : e.sleep < 5), "mood", 10)
           /\ Titled(patterns, "Poor Sleep Affects Your Mood")
                 = SleepPattern(SelectSeq(moodEntries, LAMBDA e : e.sleep >= 7 \/ e.sleep < 5))

\* the weekdays, in the viewer's time zone, on which entries were created
WeekdaysOf(entries) == {LocalWeekday(entries[i].timestamp) : i \in 1..Len(entries)}

OnWeekday(entries, day) == SelectSeq(entries, LAMBDA e : LocalWeekday(e.timestamp) = day)

\* some weekday's mean mood exceeds another's by more than 1.5
SpreadAbove(entries, days) ==
    \E a \in days : \E b \in days :
        MeanAbove(OnWeekday(entries, a), OnWeekday(entries, b), "mood", 15)

\* no weekday has a lower mean mood than day
LowestMean(entries, days, day) ==
    \A w \in days :
        SumOf(OnWeekday(entries, day), "mood") * Len(OnWeekday(entries, w))
            <= SumOf(OnWeekday(entries, w), "mood") * Len(OnWeekday(entries, day))

DayPatternExactly(found, entries, days) ==
    /\ Cardinality(days) < 5 => found = <<>>
    /\ Cardinality(days) >= 5 => (found # <<>> <=> SpreadAbove(entries, days))
    /\ found # <<>>
          => /\ found[1].confidence = 75
             /\ found[1].title[1] \in days
             /\ LowestMean(entries, days, found[1].title[1])

\* C12, for the collections of at least 7 entries the detector looks at: the
\* day-of-week pattern is not emitted when fewer than 5 weekdays are
\* covered; with 5 or more it is emitted exactly when the best weekday's
\* mean mood exceeds the worst's by more than 1.5, it names a weekday of
\* lowest mean mood and its confidence is 75
C12_DayPatternExactly ==
    Len(moodEntries) >= 7
        => DayPatternExactly(SelectSeq(patterns, LAMBDA p : p.type = "day"),
                             moodEntries, WeekdaysOf(moodEntries))

\* C13: with at least 7 entries the meditation booster is emitted exactly
\* when more than 3 entries have meditation and the mean anxiety of all
\* entries exceeds that of the meditation entries by more than 1.0, and then
\* with confidence 85
C13_MeditationBoosterExactly ==
    Len(moodEntries) >= 7
        => /\ Titled(patterns, "Meditation Reduces Anxiety") # <<>>
                 <=> /\ Len(SelectSeq(moodEntries, LAMBDA e : e.meditation)) > 3
                     /\ MeanAbove(moodEntries, SelectSeq(moodEntries, LAMBDA e : e.meditation),
                                  "anxiety", 10)
           /\ \A i \in 1..Len(patterns) :
                 patterns[i].title = <<"", "Meditation Reduces Anxiety">>
                     => patterns[i].confidence = 85

\* C14: every pattern of the list has a confidence between 70 and 95
C14_ConfidenceInRange ==
    \A i \in 1..Len(patterns) : patterns[i].confidence \in 70..95

\* the place of a pattern's heuristic in the order exercise, social, sleep,
\* day of week, meditation; each heuristic has its own icon
HeuristicRank(p) ==
    CASE p.icon = "Dumbbell" -> 1
      [] p.icon = "Users"    -> 2
      [] p.icon = "Moon"     -> 3
      [] p.icon = "Calendar" -> 4
      [] p.icon = "Brain"    -> 5

\* C15: the pattern list is in the order exercise, social, sleep, day of
\* week, meditation, with at most one pattern of each
C15_HeuristicOrder ==
    \A i \in 1..Len(patterns) : \A j \in 1..Len(patterns) :
        i < j => HeuristicRank(patterns[i]) < HeuristicRank(patterns[j])

\* all five heuristics have emitted, and a pattern of lower confidence
\* stands before one of higher confidence
C15_Witness ==
    /\ Len(patterns) = 5
    /\ \E i \in 1..4 : patterns[i].confidence < patterns[i + 1].confidence

\* toFixed(1) of a finite number between -10 and 10
FiniteFixed(str) == str \in [neg : BOOLEAN, tenths : 0..100]

\* C16: the snapshot of a non-empty collection has finite averages, mood
\* change and wellness score; with no entry in the last 7 days the four
\* averages are 0 (and the wellness score the 20 that leaves), and with no
\* entry in the week before the mood change is the average mood minus 0
C16_EmptyWindowsAverageZero ==
    Len(moodEntries) > 0
        => /\ \A f \in {"avgMood", "avgEnergy", "avgAnxiety", "avgSleep", "moodChange"} :
                 FiniteFixed(stats[f])
           /\ stats.wellnessScore \in 0..200
           /\ stats.last7Days = 0
                 => /\ \A f \in {"avgMood", "avgEnergy", "avgAnxiety", "avgSleep"} :
                          stats[f] = [neg |-> FALSE, tenths |-> 0]
                    /\ stats.wellnessScore = 20
           /\ (\A t \in Now0..now : PrevWeek(moodEntries, t) = <<>>)
                 => stats.moodChange = stats.avgMood

\* a collection whose only entries are older than 7 days, one of them 7 to
\* 14 days old
C16_Witness ==
    /\ Len(moodEntries) > 0
    /\ stats.last7Days = 0
    /\ stats.avgMood = [neg |-> FALSE, tenths |-> 0]
    /\ stats.moodChange = [neg |-> TRUE, tenths |-> 50]
    /\ stats.wellnessScore = 20

\* the entries created in the half-open interval [t - 14 days, t - 7 days)
PriorWeek(entries, t) ==
    SelectSeq(entries, LAMBDA e : e.timestamp >= t - 14 * Day /\ e.timestamp < t - 7 * Day)

\* C17: the mood change is the mean mood of the entries less than 7 days old
\* minus the mean mood of the entries created in [now - 14 days,
\* now - 7 days), the mean of no entries being 0
C17_MoodChangeOverHalfOpenWeek ==
    Len(moodEntries) > 0
        => stats.moodChange
              = ToFixed1(FSub(OrZero(Avg(Last7Days(moodEntries, now), "mood")),
                              OrZero(Avg(PriorWeek(moodEntries, now), "mood"))))

\* C18: the snapshot is the one the aggregator computes for the collection
\* at one evaluation instant: every window and the streak are taken at the
\* same value of now
C18_SnapshotOfOneInstant ==
    \E t \in Now0..now : stats = Stats(moodEntries, t)

\* C19: the trend series has min(30, number of entries) points and lists
\* them oldest-first: the dates never go back along the series
C19_TrendOldestFirst ==
    /\ Len(moodTrendData) = Min(30, Len(moodEntries))
    /\ \A i, j \in 1..Len(moodTrendData) :
          i < j => moodTrendData[i].date <= moodTrendData[j].date

AxisInRange(axis) == ~FLt(axis.value, FZero) /\ ~FGt(axis.value, FInt(10))

\* C20: every axis of the balance snapshot has a value between 0 and 10
C20_RadarAxesInRange ==
    \A i \in 1..Len(wellnessRadarData) : AxisInRange(wellnessRadarData[i])

ScenarioLoaded == Len(moodEntries) = Len(ScenarioMoods)

SevenMostRecentAndStreakTen ==
    /\ Last7Days(moodEntries, now) = SubSeq(moodEntries, 1, 7)
    /\ stats.last7Days = 7
    /\ stats.avgMood = [neg |-> FALSE, tenths |-> 63]
    /\ stats.currentStreak = 10

\* C21 as stated: with the ten entries of the scenario, the last-7-days
\* subset is the 7 most recently created entries and the streak is 10
C21_ScenarioSevenAndStreakTen == ScenarioLoaded => SevenMostRecentAndStreakTen

\* C21: with the ten entries of the scenario, the entry of the day 7 days ago
\* being at least 7 * 24 hours old, the last-7-days subset is the 7 most
\* recently created entries and the streak is 10
C21_ScenarioWithFullWeekSevenAndStreakTen ==
    (ScenarioLoaded /\ now - moodEntries[8].timestamp >= 7 * Day)
        => SevenMostRecentAndStreakTen

C21_Witness ==
    /\ ScenarioLoaded
    /\ now - moodEntries[8].timestamp = 7 * Day
    /\ now - moodEntries[7].timestamp > 6 * Day
    /\ stats.last7Days = 7
    /\ stats.currentStreak = 10

\* the collection with every meditation flag cleared
WithoutMeditation(entries) ==
    [i \in 1..Len(entries) |-> [entries[i] EXCEPT !.meditation = FALSE]]

\* C22: the wellness score is the one of the collection with its meditation
\* flags cleared, so two collections that differ in meditation flags only
\* have the same score
C22_ScoreIgnoresMeditation ==
    stats # Null =>
        stats.wellnessScore = Stats(WithoutMeditation(moodEntries), now).wellnessScore

C22_Witness ==
    /\ stats # Null
    /\ stats.meditationCount > 0
    /\ stats.meditationCount < stats.last7Days
    /\ stats.wellnessScore = Stats(WithoutMeditation(moodEntries), now).wellnessScore

IsSavedEntry(e, calls) ==
    \E i \in 1..Len(calls) :
        /\ e.timestamp \in calls[i].sentAt..now
        /\ \A f \in DOMAIN calls[i].body : e[f] = calls[i].body[f]

C25_FailedSaveKeepsDraft ==
    [][(SaveNoToken \/ SaveResponseNotOk \/ SaveThrows) =>
          /\ moodEntries' = moodEntries
          /\ showQuickLog' = showQuickLog
          /\ quick' = quick
          /\ ~SubmitDisabled']_vars

\* after a failed save of an edited draft the form is open, the draft is
\* there and the submit is possible again
C25_Witness ==
    /\ lastAlert = "Failed to save mood entry. Please try again."
    /\ saveCalls = <<>>
    /\ showQuickLog
    /\ quick.mood = 8
    /\ moodEntries = <<>>
    /\ ENABLED SaveFetch(MaxSaveEntries)

\* C26: a load that ends without a successful response leaves the collection
\* empty, and every load eventually clears the loading flag
C26_FailedLoadEmptyAndLoadingEnds ==
    /\ [][(LoadNoToken \/ LoadResponseNotOk \/ LoadThrows) =>
            (moodEntries' = <<>> /\ stats' = Null /\ ~isLoadingEntries')]_vars
    /\ <>(loadPc = "done" /\ ~isLoadingEntries)

\* the view after a load that stored nothing: no longer loading, no entries
C26_Witness ==
    /\ loadPc = "done"
    /\ ~isLoadingEntries
    /\ moodEntries = <<>>
    /\ stats = Null
    /\ ~ENABLED LoadSettles

C28_OrderIndependent ==
    \A permuted \in {Reverse(moodEntries), SortDesc(moodEntries)} :
        /\ stats = Stats(permuted, now)
        /\ patterns = Patterns(permuted)

InLast7Days(e, t) == Len(Last7Days(<<e>>, t)) = 1

InPrevWeek(e, t) == Len(PrevWeek(<<e>>, t)) = 1

NoneInLast7Days ==
    /\ Len(moodEntries) > 0
    /\ \A i \in 1..Len(moodEntries) : now - moodEntries[i].timestamp >= 7 * Day

ZeroTenths == [neg |-> FALSE, tenths |-> 0]

\* C30: without an entry in the last 7 days the four averages are "0.0",
\* the three activity counts are 0 and the wellness score is 20
C30_NoRecentEntriesScoreTwenty ==
    NoneInLast7Days =>
        /\ stats.avgMood = ZeroTenths /\ stats.avgEnergy = ZeroTenths
        /\ stats.avgAnxiety = ZeroTenths /\ stats.avgSleep = ZeroTenths
        /\ stats.exerciseCount = 0 /\ stats.socialCount = 0
        /\ stats.meditationCount = 0
        /\ stats.wellnessScore = 20

\* two old entries with different values, one of them with every activity
C30_Witness ==
    /\ NoneInLast7Days
    /\ Len(moodEntries) = 2
    /\ moodEntries[1].exercise /\ moodEntries[1].mood = 10
    /\ moodEntries[2].meditation /\ moodEntries[2].anxiety = 10
    /\ stats.wellnessScore = 20

====
